---- MODULE Spec2Model ----
(***************************************************************************)
(* Model of the sidebar coordinator of agent-skills-vscode:                *)
(* SkillsSidebarProvider (src/src/skillsSidebarProvider.ts) together with  *)
(* the skill scanner it awaits, the installer it calls, and the installed  *)
(* list and the search box of its webview script.  Every action is one     *)
(* synchronous segment of a handler: from the arrival of an intent or of a *)
(* response up to the next await; the prompts of the install wizard, which *)
(* touch only locals of the call, are one step.                            *)
(***************************************************************************)
EXTENDS Integers, Sequences, FiniteSets, TLC

VARIABLES
    installedSkills,      \* _installedSkills
    marketplaceSkills,    \* _marketplaceSkills
    isLoadingMarketplace, \* _isLoadingMarketplace
    isLoadingMore,        \* _isLoadingMore
    marketplaceError,     \* _marketplaceError
    hasMore,              \* _hasMore
    currentOffset,        \* _currentOffset
    searchQuery,          \* _searchQuery
    isSearching,          \* _isSearching
    activePanel,          \* _activePanel
    lastBrowseSkills,     \* _lastBrowseSkills
    lastBrowseHasMore,    \* _lastBrowseHasMore
    lastBrowseOffset,     \* _lastBrowseOffset
    searchRequestId,      \* _searchRequestId
    browseRequestId,      \* _browseRequestId
    cacheMarketplace,     \* globalState[CACHE_KEY_MARKETPLACE]
    cacheInstalled,       \* globalState[CACHE_KEY_INSTALLED]
    resolved,             \* resolveWebviewView has run (_view is set)
    browseInFlight,       \* page-1 requests awaiting their response
    searchInFlight,       \* search requests awaiting their response
    loadMoreInFlight,     \* load-more requests awaiting their response
    scanInFlight,         \* scans awaiting completion, by continuation
    disk,                 \* skills present in the skill directories
    now,                  \* Date.now()
    intents,              \* number of intents handled so far
    ev,                   \* the handler segment that ran last
    preSearch,            \* the browse list shown when the search began
    webviewReady,         \* _webviewReady
    posted,               \* snapshots posted to the webview by the last segment
    scanSeq,              \* number of scans dispatched so far
    links,                \* installations that are symlinks into .agents/skills
    installFlows,         \* _handleInstall calls that have not returned
    deleteFlows,          \* _deleteSkill calls that have not returned
    flowSeq,              \* number of install and delete calls so far
    opScan,               \* the latest scan dispatched by an install or a delete
    xref,                 \* the installed row rendered last and its marketplace match
    rowDelete,            \* a deleted row, its realpath and the paths removed for it
    view                  \* the search box of the webview script and its timer

vars == <<installedSkills, marketplaceSkills, isLoadingMarketplace,
          isLoadingMore, marketplaceError, hasMore, currentOffset,
          searchQuery, isSearching, activePanel, lastBrowseSkills,
          lastBrowseHasMore, lastBrowseOffset, searchRequestId,
          browseRequestId, cacheMarketplace, cacheInstalled, resolved,
          browseInFlight, searchInFlight, loadMoreInFlight, scanInFlight,
          disk, now, intents, ev, preSearch, webviewReady, posted, scanSeq,
          links, installFlows, deleteFlows, flowSeq, opScan, xref,
          rowDelete, view>>

\* the state of the install and delete flows and of the symlinks they create
\* the operands and results of the functions that are modelled on their own
pureVars == <<xref, rowDelete, view>>

fileVars == <<links, installFlows, deleteFlows, flowSeq, opScan, pureVars>>

----------------------------------------------------------------------------
(* Bounds of the model *)

MaxIntents == 2
MaxNow == 300001

(* Program constants *)

PAGE_SIZE == 50
CACHE_TTL_MS == 300000

----------------------------------------------------------------------------
(* Values *)

Null == "null"
ErrNoSkills == "No skills found in response. Try refreshing."
ErrFailedToLoad == "Failed to load"
ErrSearchFailed == "Search failed"
ErrLoadMoreFailed == "Failed to load more"

\* The value of a list field that was assigned response.skills of a
\* response without a skills array.
Undefined == <<-1>>

IsUndefined(list) == list = Undefined

\* ids a, a+1, ..., a+n-1
Range(a, n) == [i \in 1..n |-> a + i - 1]

\* the query texts of search intents: whitespace only, and two words
Queries == {<<" ">>, <<"a">>, <<"b", " ">>}

RECURSIVE TrimStart(_)
TrimStart(q) ==
    IF q # <<>> /\ Head(q) = " " THEN TrimStart(Tail(q)) ELSE q

RECURSIVE TrimEnd(_)
TrimEnd(q) ==
    IF q # <<>> /\ q[Len(q)] = " "
    THEN TrimEnd(SubSeq(q, 1, Len(q) - 1))
    ELSE q

Trim_None(q) == q

Trim(q) == TrimEnd(TrimStart(q))

----------------------------------------------------------------------------
(* The provider's fields and outstanding requests as one record, so that   *)
(* the statements of a handler segment compose.                            *)

State ==
    [installedSkills |-> installedSkills,
     marketplaceSkills |-> marketplaceSkills,
     isLoadingMarketplace |-> isLoadingMarketplace,
     isLoadingMore |-> isLoadingMore,
     marketplaceError |-> marketplaceError,
     hasMore |-> hasMore,
     currentOffset |-> currentOffset,
     searchQuery |-> searchQuery,
     isSearching |-> isSearching,
     activePanel |-> activePanel,
     lastBrowseSkills |-> lastBrowseSkills,
     lastBrowseHasMore |-> lastBrowseHasMore,
     lastBrowseOffset |-> lastBrowseOffset,
     searchRequestId |-> searchRequestId,
     browseRequestId |-> browseRequestId,
     cacheMarketplace |-> cacheMarketplace,
     cacheInstalled |-> cacheInstalled,
     browseInFlight |-> browseInFlight,
     searchInFlight |-> searchInFlight,
     loadMoreInFlight |-> loadMoreInFlight,
     scanInFlight |-> scanInFlight,
     scanSeq |-> scanSeq,
     webviewReady |-> webviewReady,
     posted |-> <<>>]

Apply(s) ==
    /\ installedSkills' = s.installedSkills
    /\ marketplaceSkills' = s.marketplaceSkills
    /\ isLoadingMarketplace' = s.isLoadingMarketplace
    /\ isLoadingMore' = s.isLoadingMore
    /\ marketplaceError' = s.marketplaceError
    /\ hasMore' = s.hasMore
    /\ currentOffset' = s.currentOffset
    /\ searchQuery' = s.searchQuery
    /\ isSearching' = s.isSearching
    /\ activePanel' = s.activePanel
    /\ lastBrowseSkills' = s.lastBrowseSkills
    /\ lastBrowseHasMore' = s.lastBrowseHasMore
    /\ lastBrowseOffset' = s.lastBrowseOffset
    /\ searchRequestId' = s.searchRequestId
    /\ browseRequestId' = s.browseRequestId
    /\ cacheMarketplace' = s.cacheMarketplace
    /\ cacheInstalled' = s.cacheInstalled
    /\ browseInFlight' = s.browseInFlight
    /\ searchInFlight' = s.searchInFlight
    /\ loadMoreInFlight' = s.loadMoreInFlight
    /\ scanInFlight' = s.scanInFlight
    /\ scanSeq' = s.scanSeq
    /\ webviewReady' = s.webviewReady
    /\ posted' = s.posted

\* The record of a handler segment: for a response, whether it was stale,
\* its kind, the length of its page and its hasMore field; for an intent,
\* whether it changed anything.
Ev(kind, stale, outcome, count, more) ==
    [kind |-> kind, stale |-> stale, outcome |-> outcome, count |-> count,
     more |-> more]

IntentEv(kind, s) ==
    Ev(kind, FALSE, IF s = State THEN "noop" ELSE "handled", 0, FALSE)

ResponseEv(kind, stale, resp) ==
    Ev(kind, stale, resp.kind, Len(resp.skills), resp.hasMore)

NoPreSearch ==
    [phase |-> "none", exact |-> FALSE, skills |-> <<>>, hasMore |-> FALSE]

----------------------------------------------------------------------------
(* The skill scanner *)

NumDirs == 3

Dirs == 1..NumDirs

\* The installations there can be of one skill, in the order a complete scan
\* lists them (SKILL_DIRECTORIES order): directory 1 is .agents/skills, the
\* others are the skill directories of the agents.
SkillUniverse == [d \in Dirs |-> [name |-> "s", dir |-> d]]

AllSkills == {SkillUniverse[i] : i \in 1..Len(SkillUniverse)}

\* scanDirectory returns no skill for a directory whose stat or
\* readDirectory throws; readable holds the directories that could be read.
scanDirectory(d, fs, readable) ==
    SelectSeq(SkillUniverse,
              LAMBDA sk : sk.dir = d /\ sk \in fs /\ d \in readable)

RECURSIVE scanFrom(_, _, _)
scanFrom(d, fs, readable) ==
    IF d > NumDirs THEN <<>>
    ELSE scanDirectory(d, fs, readable) \o scanFrom(d + 1, fs, readable)

scanAllSkills(fs, readable) == scanFrom(1, fs, readable)

\* the entries of the skill directories that a scan can stat as a directory:
\* real directories, and symlinks whose .agents/skills source exists
SharedDir == 1

SourceOf(sk) == [sk EXCEPT !.dir = SharedDir]

Visible(fs, lk) == {sk \in fs : sk \in lk => SourceOf(sk) \in fs}

NoOpScan == [id |-> 0, done |-> FALSE, result |-> <<>>]

\* the directories a scan manages to read: all of them, all but
\* .agents/skills, none
ReadOutcomes == {Dirs, Dirs \ {SharedDir}, {}}

----------------------------------------------------------------------------
(* The marketplace endpoints *)

OkResponse(skills, more) ==
    [kind |-> "ok", skills |-> skills, hasMore |-> more]

\* a rejected request: network error, HTTP status other than 200, or a body
\* that is not JSON
FailResponse == [kind |-> "fail", skills |-> <<>>, hasMore |-> FALSE]

\* a JSON body that has no skills array
MalformedResponse == [kind |-> "malformed", skills |-> <<>>, hasMore |-> FALSE]

\* The endpoint reports hasMore itself: the last page of the feed may be a
\* full page.  The feed changes between requests: the page at
\* offset o may start with the record that an earlier page ended with.
BrowseResponses(offset) ==
    {OkResponse(Range(offset + 1, PAGE_SIZE), TRUE),
     OkResponse(Range(offset + 1, PAGE_SIZE), FALSE),
     OkResponse(Range(offset + 1, 12), FALSE),
     OkResponse(<<>>, FALSE), FailResponse, MalformedResponse}
    \cup (IF offset >= 1 THEN {OkResponse(Range(offset, 12), FALSE)} ELSE {})

QueryBase(q) == IF q = <<"a">> THEN 1000 ELSE 2000

SearchResponses(q, offset) ==
    {OkResponse(Range(QueryBase(q) + offset + 1, PAGE_SIZE), TRUE),
     OkResponse(Range(QueryBase(q) + offset + 1, 3), FALSE),
     OkResponse(<<>>, FALSE), FailResponse, MalformedResponse}

----------------------------------------------------------------------------
(* Persisted state *)

NoMarketplaceCache ==
    [present |-> FALSE, skills |-> <<>>, hasMore |-> FALSE, timestamp |-> 0]

MarketplaceCache(skills, more, t) ==
    [present |-> TRUE, skills |-> skills, hasMore |-> more, timestamp |-> t]

NoInstalledCache == [present |-> FALSE, data |-> <<>>, timestamp |-> 0]

InstalledCache(data, t) == [present |-> TRUE, data |-> data, timestamp |-> t]

----------------------------------------------------------------------------
(* Handler segments of SkillsSidebarProvider *)

Blank(q) == Trim(q) = <<>>

\* _getWebviewState, without the scroll positions
_getWebviewState(s) ==
    [installedSkills |-> s.installedSkills,
     marketplaceSkills |-> s.marketplaceSkills,
     isLoadingMarketplace |-> s.isLoadingMarketplace,
     isLoadingMore |-> s.isLoadingMore,
     hasMore |-> s.hasMore,
     marketplaceError |-> s.marketplaceError,
     searchQuery |-> s.searchQuery,
     activePanel |-> s.activePanel]

_updateWebview_NoPost(s) == s

\* _updateWebview; _view is set in every handler that calls it
_updateWebview(s) ==
    IF ~s.webviewReady THEN s
    ELSE [s EXCEPT !.posted = Append(@, _getWebviewState(s))]

_loadFromCache(s) ==
    LET s1 == IF s.cacheInstalled.present
              THEN [s EXCEPT !.installedSkills = s.cacheInstalled.data]
              ELSE s
    IN IF s1.cacheMarketplace.present
       THEN [s1 EXCEPT
               !.marketplaceSkills = s1.cacheMarketplace.skills,
               !.hasMore = s1.cacheMarketplace.hasMore,
               !.currentOffset = Len(s1.cacheMarketplace.skills),
               !.lastBrowseSkills = s1.cacheMarketplace.skills,
               !.lastBrowseHasMore = s1.cacheMarketplace.hasMore,
               !.lastBrowseOffset = Len(s1.cacheMarketplace.skills)]
       ELSE s1

\* _refreshInstalledSkills up to its await: one more scan is outstanding,
\* cont is what its caller does when it resumes.
ScanDispatch(s, cont) ==
    [s EXCEPT !.scanSeq = @ + 1,
              !.scanInFlight = @ \cup {[id |-> s.scanSeq + 1, cont |-> cont,
                                        read |-> FALSE, ok |-> TRUE,
                                        result |-> <<>>]}]

\* _refreshInstalledSkills after its await
ScanApply(s, result, t) ==
    [s EXCEPT !.installedSkills = result,
              !.cacheInstalled = InstalledCache(result, t)]

isCacheValid_Always(s, t) == s.cacheMarketplace.present

isCacheValid(s, t) ==
    s.cacheMarketplace.present /\ t - s.cacheMarketplace.timestamp < CACHE_TTL_MS

shouldApply(s) == ~s.isSearching /\ Blank(s.searchQuery)

\* _fetchMarketplaceSkills up to its await.  Reading .length of an undefined
\* list throws: the call ends there, and no request is sent.
FetchBlocked_Never(s) == FALSE

\* the guard in the first line of _fetchMarketplaceSkills
FetchBlocked(s) == s.isLoadingMarketplace

FetchStart(s, forceRefresh, t) ==
    IF FetchBlocked(s) THEN s
    ELSE IF ~forceRefresh /\ isCacheValid(s, t) /\ IsUndefined(s.marketplaceSkills)
    THEN s
    ELSE IF ~forceRefresh /\ isCacheValid(s, t) /\ Len(s.marketplaceSkills) > 0
    THEN [s EXCEPT !.hasMore = s.cacheMarketplace.hasMore,
                   !.isLoadingMarketplace = FALSE]
    ELSE LET s0 == IF shouldApply(s)
                   THEN [s EXCEPT !.isLoadingMarketplace = TRUE,
                                  !.marketplaceError = Null,
                                  !.currentOffset = 0]
                   ELSE s
             s1 == IF shouldApply(s) /\ s.marketplaceSkills = <<>>
                   THEN _updateWebview(s0)
                   ELSE s0
         IN IF shouldApply(s) /\ IsUndefined(s.marketplaceSkills)
            THEN s1
            ELSE [s1 EXCEPT
                    !.browseRequestId = @ + 1,
                    !.browseInFlight = @ \cup
                        {[id |-> s.browseRequestId + 1,
                          before |-> [skills |-> s.marketplaceSkills,
                                      hasMore |-> s.hasMore,
                                      offset |-> s.currentOffset]]}]

BrowseIsCurrent_Stale(s, task) == TRUE

BrowseIsCurrent(s, task) == task.id = s.browseRequestId

\* the statements after the try/catch of _fetchMarketplaceSkills
FetchTail(s, task) ==
    IF BrowseIsCurrent(s, task) /\ shouldApply(s)
    THEN _updateWebview([s EXCEPT !.isLoadingMarketplace = FALSE])
    ELSE s

FetchCatch(s, task) ==
    IF ~BrowseIsCurrent(s, task) THEN s
    ELSE FetchTail(IF shouldApply(s)
                   THEN [s EXCEPT !.marketplaceError = ErrFailedToLoad]
                   ELSE s, task)

nextHasMore_ByLength(resp) == Len(resp.skills) >= PAGE_SIZE

\* const nextHasMore = response.hasMore, and this._hasMore = response.hasMore
nextHasMore(resp) == resp.hasMore

\* _fetchMarketplaceSkills after its await
FetchResume(s, task, resp, t) ==
    IF resp.kind = "fail" THEN FetchCatch(s, task)
    ELSE IF ~BrowseIsCurrent(s, task) THEN s
    ELSE IF resp.kind = "malformed" THEN FetchCatch(s, task)
    ELSE LET s1 == [s EXCEPT !.lastBrowseSkills = resp.skills,
                             !.lastBrowseHasMore = nextHasMore(resp),
                             !.lastBrowseOffset = Len(resp.skills)]
             s2 == IF shouldApply(s1)
                   THEN [s1 EXCEPT !.marketplaceSkills = resp.skills,
                                   !.hasMore = nextHasMore(resp),
                                   !.currentOffset = Len(resp.skills)]
                   ELSE s1
             s3 == IF shouldApply(s2) /\ Len(s2.marketplaceSkills) = 0
                   THEN [s2 EXCEPT !.marketplaceError = ErrNoSkills]
                   ELSE [s2 EXCEPT !.cacheMarketplace =
                            MarketplaceCache(resp.skills, nextHasMore(resp), t)]
         IN FetchTail(s3, task)

SearchIsCurrent_Stale(s, task) == TRUE

SearchIsCurrent(s, task) == task.id = s.searchRequestId

RestoreBrowse_SkillsOnly(s) ==
    [s EXCEPT !.marketplaceSkills = s.lastBrowseSkills]

\* the restore of the last-browse snapshot in _handleSearch
RestoreBrowse(s) ==
    [s EXCEPT !.marketplaceSkills = s.lastBrowseSkills,
              !.hasMore = s.lastBrowseHasMore,
              !.currentOffset = s.lastBrowseOffset,
              !.marketplaceError = Null,
              !.isLoadingMarketplace = FALSE]

\* _handleSearch up to its await
SearchStart(s, query, t) ==
    LET s1 == [s EXCEPT !.searchQuery = query,
                        !.activePanel = "marketplace",
                        !.searchRequestId = @ + 1]
    IN IF Trim(query) = <<>>
       THEN LET s2 == [s1 EXCEPT !.isSearching = FALSE,
                                 !.isLoadingMarketplace = FALSE,
                                 !.marketplaceError = Null]
            IN IF Len(s2.lastBrowseSkills) > 0
               THEN FetchStart(_updateWebview(RestoreBrowse(s2)), TRUE, t)
               ELSE FetchStart(s2, TRUE, t)
       ELSE _updateWebview(
              [s1 EXCEPT !.isSearching = TRUE,
                         !.isLoadingMarketplace = TRUE,
                         !.marketplaceError = Null,
                         !.searchInFlight = @ \cup
                           {[id |-> s1.searchRequestId, query |-> Trim(query)]}])

SearchTail(s, task) ==
    IF SearchIsCurrent(s, task)
    THEN _updateWebview([s EXCEPT !.isLoadingMarketplace = FALSE])
    ELSE s

SearchCatch(s, task) ==
    IF ~SearchIsCurrent(s, task) THEN s
    ELSE SearchTail([s EXCEPT !.marketplaceError = ErrSearchFailed], task)

SearchResume_SnapshotsResults(s, task, resp) ==
    IF resp.kind = "ok" /\ SearchIsCurrent(s, task)
    THEN SearchTail([s EXCEPT !.marketplaceSkills = resp.skills,
                              !.hasMore = resp.hasMore,
                              !.currentOffset = Len(resp.skills),
                              !.lastBrowseSkills = resp.skills], task)
    ELSE SearchCatch(s, task)

\* _handleSearch after its await.  A response without a skills array is
\* assigned before response.skills.length throws.
SearchResume(s, task, resp) ==
    IF resp.kind = "fail" THEN SearchCatch(s, task)
    ELSE IF ~SearchIsCurrent(s, task) THEN s
    ELSE IF resp.kind = "malformed"
    THEN SearchCatch([s EXCEPT !.marketplaceSkills = Undefined,
                               !.hasMore = resp.hasMore], task)
    ELSE SearchTail([s EXCEPT !.marketplaceSkills = resp.skills,
                              !.hasMore = nextHasMore(resp),
                              !.currentOffset = Len(resp.skills)], task)

LoadMoreGuard_NoInFlightCheck(s) == s.hasMore

\* the negation of the early return of _loadMoreSkills
LoadMoreGuard(s) == ~(s.isLoadingMore \/ ~s.hasMore)

\* _loadMoreSkills up to its await
LoadMoreStart(s) ==
    IF ~LoadMoreGuard(s) THEN s
    ELSE _updateWebview(
           [s EXCEPT !.isLoadingMore = TRUE,
                     !.activePanel = "marketplace",
                     !.loadMoreInFlight = @ \cup
                       {[requestSearchId |-> s.searchRequestId,
                         requestQuery |-> Trim(s.searchQuery),
                         requestIsSearching |-> s.isSearching,
                         offset |-> s.currentOffset]}])

LoadMoreShouldApply_Always(s, task) == TRUE

LoadMoreShouldApply(s, task) ==
    IF task.requestIsSearching
    THEN ~(task.requestSearchId # s.searchRequestId \/ ~s.isSearching
           \/ Trim(s.searchQuery) # task.requestQuery)
    ELSE ~(s.isSearching \/ Trim(s.searchQuery) # task.requestQuery)

LoadMoreMerge_Prepend(list, page) == page \o list

LoadMoreMerge(list, page) == list \o page

LoadMoreResume_NoReset(s, task, resp) ==
    _updateWebview([s EXCEPT !.marketplaceError =
                      IF resp.kind = "fail" THEN ErrLoadMoreFailed ELSE @])

\* _loadMoreSkills after its await.  Spreading an undefined list throws
\* into the catch block.
LoadMoreResume(s, task, resp) ==
    LET failed == _updateWebview(
                    [s EXCEPT !.marketplaceError = ErrLoadMoreFailed,
                              !.isLoadingMore = FALSE])
    IN IF resp.kind = "fail" THEN failed
       ELSE IF ~LoadMoreShouldApply(s, task)
       THEN _updateWebview([s EXCEPT !.isLoadingMore = FALSE])
       ELSE IF resp.kind = "malformed" \/ IsUndefined(s.marketplaceSkills)
       THEN failed
       ELSE LET s1 == [s EXCEPT
                         !.marketplaceSkills = LoadMoreMerge(@, resp.skills),
                         !.hasMore = nextHasMore(resp),
                         !.currentOffset = @ + Len(resp.skills)]
                s2 == IF ~s1.isSearching \/ Blank(s1.searchQuery)
                      THEN [s1 EXCEPT
                              !.lastBrowseSkills = s1.marketplaceSkills,
                              !.lastBrowseHasMore = s1.hasMore,
                              !.lastBrowseOffset = s1.currentOffset]
                      ELSE s1
            IN _updateWebview([s2 EXCEPT !.isLoadingMore = FALSE])

RefreshResume_KeepsSearching(s, t) ==
    FetchStart([s EXCEPT !.searchQuery = <<>>,
                         !.searchRequestId = @ + 1], TRUE, t)

\* the refresh case of onDidReceiveMessage after its first await
RefreshResume(s, t) ==
    FetchStart([s EXCEPT !.searchQuery = <<>>,
                         !.isSearching = FALSE,
                         !.searchRequestId = @ + 1], TRUE, t)

----------------------------------------------------------------------------
(* Installing: the wizard of _handleInstall and SkillInstaller *)

AgentDirs == Dirs \ {SharedDir}

Dismissed == "dismissed"

\* the agents selected in the quick pick: none, the first, all
AgentSelections == {{}, {SharedDir + 1}, AgentDirs}

\* the model follows the skill directories of one level
LevelAnswers == {Dismissed, "Project"}

MethodAnswers == {Dismissed, "Symlink (Recommended)", "Copy to all agents"}

TelemetryAnswers == {Dismissed, "No"}

\* what the agent quick pick resolves with: undefined when it was hidden,
\* the selected items when it was accepted
QuickPickResults ==
    {[accepted |-> FALSE, items |-> {}]} \cup
    {[accepted |-> TRUE, items |-> m] : m \in AgentSelections}

WizardAnswers ==
    [agents : QuickPickResults, level : LevelAnswers, method : MethodAnswers,
     telemetry : TelemetryAnswers]

InstallRequests == {[repo |-> "acme/tools", skill |-> "s"]}

\* _handleInstall up to its first await
NewInstallFlow(id, req) ==
    [id |-> id, pc |-> "wizard", repo |-> req.repo, skill |-> req.skill,
     modes |-> {}, method |-> "none"]

\* the installations `npx add-skill <repo> --skill <skill> -a <agents> -y`
\* leaves when it exits with code 0: the skill in .agents/skills and a
\* symlink to it in the skill directory of each agent
NpxAddSkill(d, flow) ==
    LET source == [name |-> flow.skill, dir |-> SharedDir]
        installed == {[name |-> flow.skill, dir |-> m] : m \in flow.modes}
    IN [fs |-> d.fs \cup {source} \cup installed,
        lk |-> d.lk \cup installed]

\* convertSymlinksToCopies: every symlink in the skill directories of the
\* selected agents is replaced by a copy of its target (an empty directory
\* when the target is missing), then .agents is removed
convertSymlinksToCopies(d, flow) ==
    LET selected == {sk \in d.fs \cap d.lk : sk.dir \in flow.modes}
        copied == {sk \in selected : SourceOf(sk) \in d.fs}
    IN [fs |-> {sk \in d.fs \ (selected \ copied) : sk.dir # SharedDir},
        lk |-> d.lk \ selected]

\* installWithOptionsMultiple when the subprocess exits with code 0
installWithOptionsMultiple(d, flow) ==
    IF flow.method = "copy"
    THEN convertSymlinksToCopies(NpxAddSkill(d, flow), flow)
    ELSE NpxAddSkill(d, flow)

\* the condition under which _handleInstall rescans
RescanAfterInstall_Always(didInstall) == TRUE

RescanAfterInstall(didInstall) == didInstall

----------------------------------------------------------------------------
(* Deleting: _deleteSkill and _deleteSkillPath *)

\* _deleteSkill up to its first await
NewDeleteFlow(id, sk, installed) ==
    LET matching == SelectSeq(installed, LAMBDA r : r.name = sk.name)
    IN [id |-> id, pc |-> IF Len(matching) > 1 THEN "choice" ELSE "confirm",
        path |-> sk, name |-> sk.name, matching |-> matching,
        removeAll |-> FALSE, answered |-> 0]

pathsToDelete_OnlyRow(flow) == <<flow.path>>

pathsToDelete(flow) ==
    IF flow.removeAll THEN flow.matching ELSE <<flow.path>>

\* _deleteSkillPath: realpath of a symlink whose target exists gives the
\* target; the path itself is removed
_deleteSkillPath(d, sk) ==
    [fs |-> d.fs \ {sk},
     lk |-> d.lk \ {sk},
     deletedTargets |-> d.deletedTargets \cup {sk},
     resolvedTargets |-> d.resolvedTargets \cup
        (IF sk \in d.fs /\ sk \in d.lk /\ SourceOf(sk) \in d.fs
         THEN {SourceOf(sk)} ELSE {}),
     rmCalls |-> d.rmCalls + 1]

RECURSIVE deleteEach(_, _)
deleteEach(d, paths) ==
    IF paths = <<>> THEN d
    ELSE deleteEach(_deleteSkillPath(d, Head(paths)), Tail(paths))

\* whether a resolved symlink target lies under .agents/skills
shouldDeleteSource(target) == target.dir = SharedDir

\* the try block of _deleteSkill up to the rescan
deleteTargets(fs, lk, flow) ==
    LET d == deleteEach([fs |-> fs, lk |-> lk, deletedTargets |-> {},
                         resolvedTargets |-> {}, rmCalls |-> 0],
                        pathsToDelete(flow))
        sources == {t \in d.resolvedTargets :
                      shouldDeleteSource(t) /\ t \notin d.deletedTargets}
    IN [d EXCEPT !.fs = @ \ sources,
                 !.rmCalls = @ + Cardinality(sources)]

----------------------------------------------------------------------------
(* The webview script: the marketplace record that the Reinstall button   *)
(* of an installed row refers to.  A match is a sequence of at most one   *)
(* record; the empty sequence stands for undefined and for null.          *)

MaxListed == 2

MarketplaceRecords ==
    {[id |-> "acme/tools/s", name |-> "s"],
     [id |-> "other/kit/s", name |-> "s"],
     [id |-> "acme/tools/t", name |-> "t"]}

\* the marketplace lists of the webview state
MarketplaceLists ==
    UNION {[1..n -> MarketplaceRecords] : n \in 0..MaxListed}

\* the installed records of the webview state: a skill of the marketplace,
\* with or without its marketplaceId
InstalledRecords ==
    UNION {{[name |-> m.name, marketplaceId |-> Null],
            [name |-> m.name, marketplaceId |-> m.id]} :
             m \in MarketplaceRecords}

\* Array.prototype.find over the positions that satisfy the callback
find(list, hits) ==
    IF hits = {} THEN <<>>
    ELSE <<list[CHOOSE i \in hits : \A j \in hits : i <= j]>>

\* marketplace.find(m => m.name === s.name)
findByName(marketplace, name) ==
    find(marketplace, {i \in 1..Len(marketplace) : marketplace[i].name = name})

\* marketplace.find(m => m.id === s.marketplaceId)
findById(marketplace, id) ==
    find(marketplace, {i \in 1..Len(marketplace) : marketplace[i].id = id})

\* renderInstalled of the script that _getHtmlContent embeds
marketplaceMatch(s, marketplace) == findByName(marketplace, s.name)

\* renderInstalled of getSkillsSidebarScript
controllerMarketplaceMatch(s, marketplace) ==
    IF s.marketplaceId # Null
    THEN findById(marketplace, s.marketplaceId)
    ELSE IF Len(SelectSeq(marketplace, LAMBDA m : m.name = s.name)) = 1
    THEN findByName(marketplace, s.name)
    ELSE <<>>

NoXref ==
    [installed |-> [name |-> "s", marketplaceId |-> Null],
     marketplace |-> <<>>, match |-> <<>>, by |-> "none"]

----------------------------------------------------------------------------
(* The paths of _deleteSkill: a path is the sequence of its segments; the  *)
(* empty sequence stands for no resolved target.                           *)

MaxDepth == 4

PathSegments == {"repo", "s", "skills", ".agents", ".Agents"}

\* the absolute paths that the realpath of a row can be
Paths == UNION {[1..n -> PathSegments] : n \in 1..MaxDepth}

\* the path of the deleted row, in the skill directory of an agent
RowPath == <<"repo", ".claude", "skills", "s">>

\* String.prototype.toLowerCase on a segment
toLowerCase(segment) == IF segment = ".Agents" THEN ".agents" ELSE segment

\* normalizedLower.includes(agentsMarker): a segment .agents followed by a
\* segment skills that is followed by a separator, in lower case
includesAgentsMarker(target) ==
    \E i \in 1..(Len(target) - 2) :
       /\ toLowerCase(target[i]) = ".agents"
       /\ toLowerCase(target[i + 1]) = "skills"

\* the paths removed by _deleteSkill for one row: the row itself and, for a
\* symlink, its resolved target when the marker is in it
removedPaths(targetPath, resolvedTarget) ==
    LET deletedTargets == {targetPath}
        resolvedTargets == IF resolvedTarget = <<>> THEN {}
                           ELSE {resolvedTarget}
    IN deletedTargets \cup
         {t \in resolvedTargets :
            includesAgentsMarker(t) /\ t \notin deletedTargets}

NoRowDelete == [target |-> <<>>, removed |-> {}, done |-> FALSE]

----------------------------------------------------------------------------
(* The search box of the webview script.  Times are in milliseconds; a     *)
(* timer that is due runs before the next input event and before the      *)
(* clock advances.                                                         *)

DEBOUNCE_MS == 150

MaxKeys == 3

MaxClock == 450

\* the script when it has loaded: no timer, nothing typed, nothing sent.
\* typed, lastKey, keys and bursts record the keystrokes: the text of the
\* search box after the last one, the time of the last one made in the
\* marketplace panel, their number, and the number of bursts so far.
NoView ==
    [activePanel |-> "installed", localSearchQuery |-> <<>>,
     searchTimeout |-> <<>>, focused |-> FALSE, clock |-> 0, sent |-> <<>>,
     typed |-> <<>>, lastKey |-> 0, keys |-> 0, bursts |-> 0]

\* the timer set by the input listener has reached its time
TimerDue(v) == v.searchTimeout # <<>> /\ v.clock >= v.searchTimeout[1]

\* the input listener of the search box, value being e.target.value; the
\* timer it sets runs DEBOUNCE_MS later.  A keystroke in the marketplace
\* panel begins a burst when none was made before or the last one is
\* DEBOUNCE_MS or more ago.
onInput(v, value) ==
    LET v1 == [v EXCEPT !.localSearchQuery = value, !.typed = value,
                        !.keys = @ + 1]
    IN IF v.activePanel = "installed" THEN v1
       ELSE [v1 EXCEPT !.searchTimeout = <<v.clock + DEBOUNCE_MS>>,
                       !.lastKey = v.clock,
                       !.bursts = IF \/ v.bursts = 0
                                     \/ v.clock - v.lastKey >= DEBOUNCE_MS
                                  THEN @ + 1 ELSE @]

\* applyState: the panel of the pushed state and, when the search box does
\* not have the focus, its searchQuery
applyState(v, state) ==
    LET v1 == [v EXCEPT !.activePanel = state.activePanel]
    IN IF v.focused THEN v1
       ELSE [v1 EXCEPT !.localSearchQuery = state.searchQuery]

----------------------------------------------------------------------------
(* Initial state: the provider as constructed, the persisted state and the *)
(* skill directories as an earlier session left them.                      *)

InitialMarketplaceCaches ==
    {NoMarketplaceCache,
     MarketplaceCache(Range(1, PAGE_SIZE), TRUE, 0),
     MarketplaceCache(Range(1, PAGE_SIZE), TRUE, 1),
     MarketplaceCache(Range(1, 12), FALSE, 1),
     MarketplaceCache(<<>>, FALSE, 1)}

InitialInstalledCaches ==
    {NoInstalledCache, InstalledCache(scanAllSkills(AllSkills, Dirs), 0)}

InitProvider ==
    /\ installedSkills = <<>>
    /\ marketplaceSkills = <<>>
    /\ isLoadingMarketplace = FALSE
    /\ isLoadingMore = FALSE
    /\ marketplaceError = Null
    /\ hasMore = FALSE
    /\ currentOffset = 0
    /\ searchQuery = <<>>
    /\ isSearching = FALSE
    /\ activePanel = "installed"
    /\ lastBrowseSkills = <<>>
    /\ lastBrowseHasMore = FALSE
    /\ lastBrowseOffset = 0
    /\ searchRequestId = 0
    /\ browseRequestId = 0
    /\ resolved = FALSE
    /\ browseInFlight = {}
    /\ searchInFlight = {}
    /\ loadMoreInFlight = {}
    /\ scanInFlight = {}
    /\ scanSeq = 0
    /\ webviewReady = FALSE
    /\ posted = <<>>
    /\ installFlows = {}
    /\ deleteFlows = {}
    /\ flowSeq = 0
    /\ opScan = NoOpScan
    /\ now = CACHE_TTL_MS
    /\ intents = 0
    /\ ev = Ev("init", FALSE, "none", 0, FALSE)
    /\ preSearch = NoPreSearch

\* the skill directories hold every skill and can be read
Init ==
    /\ InitProvider
    /\ cacheMarketplace \in InitialMarketplaceCaches
    /\ cacheInstalled = NoInstalledCache
    /\ disk = AllSkills
    /\ links = {}
    /\ xref = NoXref
    /\ rowDelete = NoRowDelete
    /\ view = NoView

\* the skill installed in the first k skill directories, for any k
DiskStates == {{SkillUniverse[i] : i \in 1..k} : k \in 0..NumDirs}

InitScan ==
    /\ InitProvider
    /\ cacheMarketplace = MarketplaceCache(Range(1, 12), FALSE, 1)
    /\ cacheInstalled \in InitialInstalledCaches
    /\ disk \in DiskStates
    /\ links = {}
    /\ xref = NoXref
    /\ rowDelete = NoRowDelete
    /\ view = NoView

\* the skill installed nowhere, copied into every skill directory, or in
\* .agents/skills with a symlink in the skill directory of every agent; the
\* installed snapshot of the last session lists what is installed
InitialLayouts ==
    {[fs |-> {}, lk |-> {}],
     [fs |-> AllSkills, lk |-> {}],
     [fs |-> AllSkills, lk |-> {sk \in AllSkills : sk.dir # SharedDir}]}

InitFiles ==
    /\ InitProvider
    /\ cacheMarketplace = MarketplaceCache(Range(1, 12), FALSE, 1)
    /\ \E d \in InitialLayouts :
         /\ disk = d.fs
         /\ links = d.lk
         /\ cacheInstalled =
              InstalledCache(scanAllSkills(Visible(d.fs, d.lk), Dirs), 0)
    /\ xref = NoXref
    /\ rowDelete = NoRowDelete
    /\ view = NoView

\* the webview holds a state with one installed record and a marketplace
\* list; no installed row has been rendered yet
InitMatch ==
    /\ InitProvider
    /\ cacheMarketplace = NoMarketplaceCache
    /\ cacheInstalled = NoInstalledCache
    /\ disk = {}
    /\ links = {}
    /\ \E s \in InstalledRecords, marketplace \in MarketplaceLists :
         xref = [installed |-> s, marketplace |-> marketplace,
                 match |-> <<>>, by |-> "none"]
    /\ rowDelete = NoRowDelete
    /\ view = NoView

----------------------------------------------------------------------------
(* Actions *)

\* resolveWebviewView
Activate ==
    /\ ~resolved
    /\ resolved' = TRUE
    /\ LET s == FetchStart(
                  ScanDispatch(
                    [_loadFromCache(State) EXCEPT !.webviewReady = FALSE],
                    "push"),
                  FALSE, now)
       IN /\ Apply(s)
          /\ ev' = IntentEv("activate", s)
    /\ UNCHANGED <<disk, now, intents, preSearch>>
    /\ UNCHANGED fileVars

\* message "webviewReady", posted by the script of the view when it has loaded
WebviewReady ==
    /\ resolved /\ ~webviewReady
    /\ Apply(_updateWebview([State EXCEPT !.webviewReady = TRUE]))
    /\ ev' = Ev("webviewReady", FALSE, "handled", 0, FALSE)
    /\ UNCHANGED <<resolved, disk, now, intents, preSearch>>
    /\ UNCHANGED fileVars

\* onDidChangeVisibility with the view visible
VisibilityIntent ==
    /\ resolved /\ intents < MaxIntents
    /\ intents' = intents + 1
    /\ Apply(ScanDispatch(State, "push"))
    /\ ev' = IntentEv("visible", ScanDispatch(State, "push"))
    /\ UNCHANGED <<resolved, disk, now, preSearch>>
    /\ UNCHANGED fileVars

\* message "refresh", up to the await of _refreshInstalledSkills
RefreshIntent ==
    /\ webviewReady /\ intents < MaxIntents
    /\ intents' = intents + 1
    /\ Apply(ScanDispatch(State, "refresh"))
    /\ ev' = IntentEv("refresh", ScanDispatch(State, "refresh"))
    /\ preSearch' = NoPreSearch
    /\ UNCHANGED <<resolved, disk, now>>
    /\ UNCHANGED fileVars

ScanResume_StopsOnFailure(task, result, ok) ==
    /\ LET s1 == ScanApply([State EXCEPT !.scanInFlight = @ \ {task}],
                           result, now)
           s2 == IF ~ok THEN s1
                 ELSE IF task.cont = "refresh" THEN RefreshResume(s1, now)
                 ELSE _updateWebview(s1)
       IN /\ Apply(s2)
          /\ ev' = Ev("scanDone:" \o task.cont, FALSE,
                      IF ok THEN "ok" ELSE "fail",
                      Len(result), s2.browseInFlight # browseInFlight)
    /\ opScan' = IF task.id = opScan.id
                 THEN [opScan EXCEPT !.done = TRUE, !.result = result]
                 ELSE opScan
    /\ UNCHANGED <<resolved, disk, now, intents, preSearch>>
    /\ UNCHANGED <<links, installFlows, deleteFlows, flowSeq, pureVars>>

\* the caller of _refreshInstalledSkills resumes with the result of the scan
ScanResume(task, result, ok) ==
    /\ LET s1 == ScanApply([State EXCEPT !.scanInFlight = @ \ {task}],
                           result, now)
           s2 == IF task.cont = "refresh" THEN RefreshResume(s1, now)
                 ELSE _updateWebview(s1)
       IN /\ Apply(s2)
          /\ ev' = Ev("scanDone:" \o task.cont, FALSE,
                      IF ok THEN "ok" ELSE "fail",
                      Len(result), s2.browseInFlight # browseInFlight)
    /\ opScan' = IF task.id = opScan.id
                 THEN [opScan EXCEPT !.done = TRUE, !.result = result]
                 ELSE opScan
    /\ UNCHANGED <<resolved, disk, now, intents, preSearch>>
    /\ UNCHANGED <<links, installFlows, deleteFlows, flowSeq, pureVars>>

\* a scan reads the skill directories and completes
ScanComplete(task, readable) ==
    /\ task \in scanInFlight /\ ~task.read
    /\ ScanResume(task, scanAllSkills(Visible(disk, links), readable),
                  readable = Dirs)

\* a scan reads the skill directories; it completes later
ScanRead(task, readable) ==
    /\ task \in scanInFlight /\ ~task.read
    /\ Apply([State EXCEPT !.scanInFlight = (@ \ {task}) \cup
                 {[task EXCEPT
                     !.read = TRUE,
                     !.ok = (readable = Dirs),
                     !.result = scanAllSkills(Visible(disk, links), readable)]}])
    /\ ev' = Ev("scanRead", FALSE, "none", 0, FALSE)
    /\ UNCHANGED <<resolved, disk, now, intents, preSearch>>
    /\ UNCHANGED fileVars

\* a scan that has read the skill directories completes
ScanDeliver(task) ==
    /\ task \in scanInFlight /\ task.read
    /\ ScanResume(task, task.result, task.ok)

\* message "search"
SearchIntent(query) ==
    /\ webviewReady /\ intents < MaxIntents
    /\ intents' = intents + 1
    /\ LET s == SearchStart(State, query, now)
       IN /\ Apply(s)
          /\ ev' = IntentEv(IF Trim(query) = <<>> THEN "searchClear"
                            ELSE "search", s)
    /\ preSearch' =
         IF Trim(query) = <<>>
         THEN IF preSearch.phase = "searching"
              THEN [preSearch EXCEPT !.phase = "cleared"]
              ELSE NoPreSearch
         ELSE IF shouldApply(State)
         THEN [phase |-> "searching",
               exact |-> /\ marketplaceSkills = lastBrowseSkills
                         /\ hasMore = lastBrowseHasMore
                         /\ Len(lastBrowseSkills) > 0,
               skills |-> marketplaceSkills,
               hasMore |-> hasMore]
         ELSE preSearch
    /\ UNCHANGED <<resolved, disk, now>>
    /\ UNCHANGED fileVars

\* the values of data-panel of the two tabs of the view
Panels == {"installed", "marketplace"}

setActivePanel_AlsoRefresh(s, panel) ==
    ScanDispatch([s EXCEPT !.activePanel = panel], "refresh")

\* the setActivePanel case of onDidReceiveMessage
setActivePanel(s, panel) == [s EXCEPT !.activePanel = panel]

\* message "setActivePanel", posted by the click on a tab
SetActivePanelIntent(panel) ==
    /\ webviewReady /\ intents < MaxIntents
    /\ intents' = intents + 1
    /\ Apply(setActivePanel(State, panel))
    /\ ev' = Ev("setActivePanel", FALSE, "handled", 0, FALSE)
    /\ UNCHANGED <<resolved, disk, now, preSearch>>
    /\ UNCHANGED fileVars

\* message "loadMore"
LoadMoreIntent ==
    /\ webviewReady /\ intents < MaxIntents
    /\ intents' = intents + 1
    /\ LET s == LoadMoreStart(State)
       IN /\ Apply(s)
          /\ ev' = IntentEv("loadMore", s)
    /\ UNCHANGED <<resolved, disk, now, preSearch>>
    /\ UNCHANGED fileVars

\* the response to a page-1 request arrives
BrowseResponse(task, resp) ==
    /\ task \in browseInFlight
    /\ Apply(FetchResume([State EXCEPT !.browseInFlight = @ \ {task}],
                         task, resp, now))
    /\ ev' = ResponseEv("browseResp", task.id # browseRequestId, resp)
    /\ preSearch' =
         IF task.id = browseRequestId /\ resp.kind = "ok"
         THEN [preSearch EXCEPT !.exact = FALSE]
         ELSE preSearch
    /\ UNCHANGED <<resolved, disk, now, intents>>
    /\ UNCHANGED fileVars

\* the response to a search request arrives
SearchResponse(task, resp) ==
    /\ task \in searchInFlight
    /\ Apply(SearchResume([State EXCEPT !.searchInFlight = @ \ {task}],
                          task, resp))
    /\ ev' = ResponseEv("searchResp", task.id # searchRequestId, resp)
    /\ UNCHANGED <<resolved, disk, now, intents, preSearch>>
    /\ UNCHANGED fileVars

LoadMoreResponses(task) ==
    IF task.requestIsSearching /\ task.requestQuery # <<>>
    THEN SearchResponses(task.requestQuery, task.offset)
    ELSE BrowseResponses(task.offset)

\* the response to a load-more request arrives
LoadMoreResponse(task, resp) ==
    /\ task \in loadMoreInFlight
    /\ Apply(LoadMoreResume([State EXCEPT !.loadMoreInFlight = @ \ {task}],
                            task, resp))
    /\ ev' = ResponseEv("loadMoreResp", ~LoadMoreShouldApply(State, task),
                        resp)
    /\ UNCHANGED <<resolved, disk, now, intents, preSearch>>
    /\ UNCHANGED fileVars

\* message "install": _handleInstall shows the agent quick pick
InstallIntent(req) ==
    /\ webviewReady /\ intents < MaxIntents
    /\ intents' = intents + 1
    /\ flowSeq' = flowSeq + 1
    /\ installFlows' = installFlows \cup {NewInstallFlow(flowSeq + 1, req)}
    /\ Apply(State)
    /\ ev' = Ev("install", FALSE, "wizard", 0, FALSE)
    /\ UNCHANGED <<resolved, disk, now, preSearch, links, deleteFlows, opScan,
                   pureVars>>

returnsAt_IgnoresTelemetry(answers) ==
    IF ~answers.agents.accepted \/ answers.agents.items = {} THEN "agents"
    ELSE IF answers.level = Dismissed THEN "level"
    ELSE IF answers.method = Dismissed THEN "method"
    ELSE "none"

\* the prompt at which _handleInstall returns without installing, if any:
\* the agent quick pick was hidden or accepted with no agent, or a later
\* prompt was dismissed
returnsAt(answers) ==
    IF ~answers.agents.accepted \/ answers.agents.items = {} THEN "agents"
    ELSE IF answers.level = Dismissed THEN "level"
    ELSE IF answers.method = Dismissed THEN "method"
    ELSE IF answers.telemetry = Dismissed THEN "telemetry"
    ELSE "none"

\* the call of _handleInstall after its prompts: it has returned, or it
\* awaits installWithOptionsMultiple with the selected agents and method
wizardResult(flow, answers) ==
    IF returnsAt(answers) # "none" THEN {}
    ELSE {[flow EXCEPT
             !.pc = "installer",
             !.modes = answers.agents.items,
             !.method = IF answers.method = "Symlink (Recommended)"
                        THEN "symlink" ELSE "copy"]}

\* the prompts of the wizard resolve one after the other (they read and write
\* nothing but the locals of the call); when none is dismissed the installer
\* subprocess is started
InstallWizard(flow, answers) ==
    /\ flow \in installFlows /\ flow.pc = "wizard"
    /\ installFlows' = (installFlows \ {flow}) \cup wizardResult(flow, answers)
    /\ Apply(State)
    /\ ev' = Ev("installWizard", FALSE,
                IF returnsAt(answers) = "none" THEN "started" ELSE "cancelled",
                0, FALSE)
    /\ UNCHANGED <<pureVars, resolved, disk, now, intents, preSearch, links,
                   deleteFlows, flowSeq, opScan>>

\* installWithOptionsMultiple resolves; _handleInstall rescans if it
\* resolved with true
InstallerExit(flow, didInstall) ==
    /\ flow \in installFlows /\ flow.pc = "installer"
    /\ installFlows' = installFlows \ {flow}
    /\ LET d == IF didInstall
                THEN installWithOptionsMultiple([fs |-> disk, lk |-> links],
                                                flow)
                ELSE [fs |-> disk, lk |-> links]
       IN disk' = d.fs /\ links' = d.lk
    /\ IF RescanAfterInstall(didInstall)
       THEN /\ Apply(ScanDispatch(State, "install"))
            /\ opScan' = [NoOpScan EXCEPT !.id = scanSeq + 1]
       ELSE /\ Apply(State)
            /\ opScan' = opScan
    /\ ev' = Ev("installerExit", FALSE,
                IF didInstall THEN "success" ELSE "fail", 0, FALSE)
    /\ UNCHANGED <<pureVars, resolved, now, intents, preSearch, deleteFlows, flowSeq>>

\* message "deleteSkill" for a row of the installed list
DeleteIntent(sk) ==
    /\ webviewReady /\ intents < MaxIntents
    /\ \E i \in 1..Len(installedSkills) : installedSkills[i] = sk
    /\ intents' = intents + 1
    /\ flowSeq' = flowSeq + 1
    /\ deleteFlows' = deleteFlows \cup
                        {NewDeleteFlow(flowSeq + 1, sk, installedSkills)}
    /\ Apply(State)
    /\ ev' = Ev("delete", FALSE, "dialog", 0, FALSE)
    /\ UNCHANGED <<pureVars, resolved, disk, now, preSearch, links, installFlows,
                   opScan>>

\* the "Remove from all agents?" dialog resolves
DeleteChoice(flow, choice) ==
    /\ flow \in deleteFlows /\ flow.pc = "choice"
    /\ deleteFlows' = (deleteFlows \ {flow}) \cup
         (IF choice = Dismissed THEN {}
          ELSE {[flow EXCEPT !.pc = "confirm",
                             !.removeAll = (choice = "Yes"),
                             !.answered = @ + 1]})
    /\ Apply(State)
    /\ ev' = Ev("deleteChoice", FALSE,
                IF choice = Dismissed THEN "cancelled" ELSE "next", 0, FALSE)
    /\ UNCHANGED <<pureVars, resolved, disk, now, intents, preSearch, links,
                   installFlows, flowSeq, opScan>>

\* the confirmation dialog resolves; when confirmed, the targets are removed
\* and _deleteSkill rescans, unless a removal throws
DeleteConfirm(flow, confirmed, rmThrows) ==
    /\ flow \in deleteFlows /\ flow.pc = "confirm"
    /\ deleteFlows' = deleteFlows \ {flow}
    /\ IF confirmed /\ ~rmThrows
       THEN LET d == deleteTargets(disk, links, flow)
            IN /\ disk' = d.fs /\ links' = d.lk
               /\ Apply(ScanDispatch(State, "delete"))
               /\ opScan' = [NoOpScan EXCEPT !.id = scanSeq + 1]
               /\ ev' = Ev("deleteConfirm", FALSE, "deleted", d.rmCalls,
                           flow.removeAll)
       ELSE /\ Apply(State)
            /\ ev' = Ev("deleteConfirm", FALSE,
                        IF confirmed THEN "fail" ELSE "cancelled", 0,
                        flow.removeAll)
            /\ UNCHANGED <<disk, links, opScan>>
    /\ UNCHANGED <<pureVars, resolved, now, intents, preSearch, installFlows, flowSeq>>

\* skills appear in or disappear from the skill directories
DiskChange ==
    /\ \E fs \in DiskStates : fs # disk /\ disk' = fs
    /\ links' = links \cap disk'
    /\ ev' = Ev("disk", FALSE, "none", 0, FALSE)
    /\ UNCHANGED <<installedSkills, marketplaceSkills, isLoadingMarketplace,
                   isLoadingMore, marketplaceError, hasMore, currentOffset,
                   searchQuery, isSearching, activePanel, lastBrowseSkills,
                   lastBrowseHasMore, lastBrowseOffset, searchRequestId,
                   browseRequestId, cacheMarketplace, cacheInstalled, resolved,
                   browseInFlight, searchInFlight, loadMoreInFlight,
                   scanInFlight, now, intents, preSearch, webviewReady,
                   scanSeq, installFlows, deleteFlows, flowSeq, opScan,
                   pureVars>>
    /\ posted' = <<>>

\* time passes
Tick ==
    /\ now < MaxNow
    /\ now' = now + 1
    /\ ev' = Ev("tick", FALSE, "none", 0, FALSE)
    /\ UNCHANGED <<installedSkills, marketplaceSkills, isLoadingMarketplace,
                   isLoadingMore, marketplaceError, hasMore, currentOffset,
                   searchQuery, isSearching, activePanel, lastBrowseSkills,
                   lastBrowseHasMore, lastBrowseOffset, searchRequestId,
                   browseRequestId, cacheMarketplace, cacheInstalled, resolved,
                   browseInFlight, searchInFlight, loadMoreInFlight,
                   scanInFlight, disk, intents, preSearch, webviewReady,
                   scanSeq>>
    /\ posted' = <<>>
    /\ UNCHANGED fileVars

Next ==
    \/ Activate
    \/ RefreshIntent
    \/ WebviewReady
    \/ \E task \in scanInFlight : ScanComplete(task, Dirs)
    \/ \E query \in Queries : SearchIntent(query)
    \/ LoadMoreIntent
    \/ \E task \in browseInFlight :
         \E resp \in BrowseResponses(0) : BrowseResponse(task, resp)
    \/ \E task \in searchInFlight :
         \E resp \in SearchResponses(task.query, 0) : SearchResponse(task, resp)
    \/ \E task \in loadMoreInFlight :
         \E resp \in LoadMoreResponses(task) : LoadMoreResponse(task, resp)

Spec == Init /\ [][Next]_vars

\* the scanner and its callers, with skill directories that change and that
\* may fail to be read
NextScan ==
    \/ Activate
    \/ VisibilityIntent
    \/ RefreshIntent
    \/ WebviewReady
    \/ \E task \in scanInFlight : \E readable \in ReadOutcomes :
         ScanComplete(task, readable)
    \/ \E task \in browseInFlight :
         \E resp \in {OkResponse(Range(1, 12), FALSE), FailResponse} :
           BrowseResponse(task, resp)
    \/ DiskChange
    \/ Tick

SpecScan == InitScan /\ [][NextScan]_vars

\* the marketplace with every load-more request answered or failing:
\* https.get ends in the end event of the response stream or in an error
\* event
SpecLive ==
    /\ Init /\ [][Next]_vars
    /\ WF_vars(\E task \in loadMoreInFlight :
                 \E resp \in LoadMoreResponses(task) :
                   LoadMoreResponse(task, resp))

\* the tabs of the view, with searches, scans and page-1 requests under way
NextPanel ==
    \/ Activate
    \/ WebviewReady
    \/ \E panel \in Panels : SetActivePanelIntent(panel)
    \/ \E query \in Queries : SearchIntent(query)
    \/ LoadMoreIntent
    \/ \E task \in scanInFlight : ScanComplete(task, Dirs)
    \/ \E task \in browseInFlight :
         \E resp \in BrowseResponses(0) : BrowseResponse(task, resp)
    \/ \E task \in searchInFlight :
         \E resp \in SearchResponses(task.query, 0) : SearchResponse(task, resp)

SpecPanel == Init /\ [][NextPanel]_vars

\* activation and the scans, which read the skill directories at any time
\* between their dispatch and their completion
NextScans ==
    \/ Activate
    \/ WebviewReady
    \/ VisibilityIntent
    \/ \E task \in scanInFlight : ScanRead(task, Dirs)
    \/ \E task \in scanInFlight : ScanDeliver(task)

\* the install flows and the scans they overlap
NextInstall ==
    \/ NextScans
    \/ \E req \in InstallRequests : InstallIntent(req)
    \/ \E flow \in installFlows, answers \in WizardAnswers :
         InstallWizard(flow, answers)
    \/ \E flow \in installFlows, didInstall \in BOOLEAN :
         InstallerExit(flow, didInstall)

SpecInstall == InitFiles /\ [][NextInstall]_vars

\* the delete flows and the scans they overlap
NextDelete ==
    \/ NextScans
    \/ \E sk \in AllSkills : DeleteIntent(sk)
    \/ \E flow \in deleteFlows, choice \in {Dismissed, "Yes", "No"} :
         DeleteChoice(flow, choice)
    \/ \E flow \in deleteFlows, confirmed \in BOOLEAN, rmThrows \in BOOLEAN :
         DeleteConfirm(flow, confirmed, rmThrows)

SpecDelete == InitFiles /\ [][NextDelete]_vars

\* the script embedded by _getHtmlContent renders the installed row
RenderInstalled ==
    /\ xref' = [xref EXCEPT
                  !.match = marketplaceMatch(xref.installed, xref.marketplace),
                  !.by = "provider"]
    /\ UNCHANGED <<installedSkills, marketplaceSkills, isLoadingMarketplace,
                   isLoadingMore, marketplaceError, hasMore, currentOffset,
                   searchQuery, isSearching, activePanel, lastBrowseSkills,
                   lastBrowseHasMore, lastBrowseOffset, searchRequestId,
                   browseRequestId, cacheMarketplace, cacheInstalled, resolved,
                   browseInFlight, searchInFlight, loadMoreInFlight,
                   scanInFlight, disk, now, intents, ev, preSearch,
                   webviewReady, posted, scanSeq, links, installFlows,
                   deleteFlows, flowSeq, opScan, rowDelete, view>>

\* the script of getSkillsSidebarScript renders the installed row
ControllerRenderInstalled ==
    /\ xref' = [xref EXCEPT
                  !.match = controllerMarketplaceMatch(xref.installed,
                                                       xref.marketplace),
                  !.by = "controller"]
    /\ UNCHANGED <<installedSkills, marketplaceSkills, isLoadingMarketplace,
                   isLoadingMore, marketplaceError, hasMore, currentOffset,
                   searchQuery, isSearching, activePanel, lastBrowseSkills,
                   lastBrowseHasMore, lastBrowseOffset, searchRequestId,
                   browseRequestId, cacheMarketplace, cacheInstalled, resolved,
                   browseInFlight, searchInFlight, loadMoreInFlight,
                   scanInFlight, disk, now, intents, ev, preSearch,
                   webviewReady, posted, scanSeq, links, installFlows,
                   deleteFlows, flowSeq, opScan, rowDelete, view>>

NextMatch ==
    \/ RenderInstalled
    \/ ControllerRenderInstalled

SpecMatch == InitMatch /\ [][NextMatch]_vars

\* a row is about to be deleted; it is a directory, or a symlink with any
\* resolved target
InitRow ==
    /\ InitProvider
    /\ cacheMarketplace = NoMarketplaceCache
    /\ cacheInstalled = NoInstalledCache
    /\ disk = {}
    /\ links = {}
    /\ xref = NoXref
    /\ \E target \in Paths \cup {<<>>} :
         rowDelete = [NoRowDelete EXCEPT !.target = target]
    /\ view = NoView

\* _deleteSkill removes the row, confirmed, for a name installed once
DeleteRow ==
    /\ ~rowDelete.done
    /\ rowDelete' = [rowDelete EXCEPT
                       !.removed = removedPaths(RowPath, rowDelete.target),
                       !.done = TRUE]
    /\ UNCHANGED <<installedSkills, marketplaceSkills, isLoadingMarketplace,
                   isLoadingMore, marketplaceError, hasMore, currentOffset,
                   searchQuery, isSearching, activePanel, lastBrowseSkills,
                   lastBrowseHasMore, lastBrowseOffset, searchRequestId,
                   browseRequestId, cacheMarketplace, cacheInstalled, resolved,
                   browseInFlight, searchInFlight, loadMoreInFlight,
                   scanInFlight, disk, now, intents, ev, preSearch,
                   webviewReady, posted, scanSeq, links, installFlows,
                   deleteFlows, flowSeq, opScan, xref, view>>

NextRow == DeleteRow

\* a step of the webview script leaves the provider as it is
ViewStep(v) ==
    /\ view' = v
    /\ UNCHANGED <<installedSkills, marketplaceSkills, isLoadingMarketplace,
                   isLoadingMore, marketplaceError, hasMore, currentOffset,
                   searchQuery, isSearching, activePanel, lastBrowseSkills,
                   lastBrowseHasMore, lastBrowseOffset, searchRequestId,
                   browseRequestId, cacheMarketplace, cacheInstalled, resolved,
                   browseInFlight, searchInFlight, loadMoreInFlight,
                   scanInFlight, disk, now, intents, ev, preSearch,
                   webviewReady, posted, scanSeq, links, installFlows,
                   deleteFlows, flowSeq, opScan, xref, rowDelete>>

\* the script has loaded with either panel shown
InitView ==
    /\ InitProvider
    /\ cacheMarketplace = NoMarketplaceCache
    /\ cacheInstalled = NoInstalledCache
    /\ disk = {}
    /\ links = {}
    /\ xref = NoXref
    /\ rowDelete = NoRowDelete
    /\ \E panel \in Panels : view = [NoView EXCEPT !.activePanel = panel]

\* a character is typed into the search box
KeyInput(ch) ==
    /\ view.focused /\ ~TimerDue(view) /\ view.keys < MaxKeys
    /\ ViewStep(onInput(view, Append(view.typed, ch)))

\* the timer of the search box runs: the search message carries
\* localSearchQuery as it is now
SearchTimeout ==
    /\ TimerDue(view)
    /\ ViewStep([view EXCEPT
                   !.sent = Append(@, [query |-> view.localSearchQuery,
                                       at |-> view.clock]),
                   !.searchTimeout = <<>>])

\* time passes, up to the time of the timer
Advance(d) ==
    /\ view.clock + d <= MaxClock
    /\ view.searchTimeout # <<>> => view.clock + d <= view.searchTimeout[1]
    /\ ViewStep([view EXCEPT !.clock = @ + d])

\* the search box gains or loses the focus
FocusChange ==
    /\ ~TimerDue(view)
    /\ ViewStep([view EXCEPT !.focused = ~@])

\* a tab is clicked
TabClick(panel) ==
    /\ view.activePanel # panel /\ ~TimerDue(view)
    /\ ViewStep([view EXCEPT !.activePanel = panel])

\* a state message of the provider arrives; its searchQuery is empty or
\* the query of a search message the provider has received
StateMessage(state) ==
    /\ applyState(view, state) # view /\ ~TimerDue(view)
    /\ ViewStep(applyState(view, state))

NextView ==
    \/ \E ch \in {"a", " "} : KeyInput(ch)
    \/ SearchTimeout
    \/ \E d \in {DEBOUNCE_MS - 1, DEBOUNCE_MS} : Advance(d)
    \/ FocusChange
    \/ \E panel \in Panels : TabClick(panel)
    \/ \E q \in {<<>>} \cup {view.sent[i].query : i \in 1..Len(view.sent)},
          panel \in Panels :
         StateMessage([searchQuery |-> q, activePanel |-> panel])

SpecView == InitView /\ [][NextView]_vars

SpecRow == InitRow /\ [][NextRow]_vars

----------------------------------------------------------------------------
(* Properties *)

IsList(list) == ~IsUndefined(list)

NoDuplicates(list) ==
    \A i, j \in 1..Len(list) : list[i] = list[j] => i = j

\* a page-1 response that the handler applies to the displayed list
BrowseApplied(e) ==
    e.kind = "browseResp" /\ ~e.stale /\ e.outcome = "ok"

\* C1: a search response whose request id is not the current
\* _searchRequestId when it arrives changes none of marketplaceSkills,
\* hasMore, currentOffset, marketplaceError and isLoadingMarketplace.
C1_StaleSearchResponseIgnored ==
    [][(ev'.kind = "searchResp" /\ ev'.stale)
         => UNCHANGED <<marketplaceSkills, hasMore, currentOffset,
                        marketplaceError, isLoadingMarketplace>>]_vars

\* search #1 and then search #2 were dispatched, #2's response was applied
\* and #1's response arrived after it: the list shown is #2's result
C1_Witness ==
    /\ ev.kind = "searchResp" /\ ev.stale /\ ev.outcome = "ok"
    /\ searchRequestId = 2 /\ searchInFlight = {}
    /\ isSearching /\ Trim(searchQuery) = <<"b">>
    /\ marketplaceSkills = Range(QueryBase(<<"b">>) + 1, 3)

\* C2: a page-1 response whose request id is not the current
\* _browseRequestId when it arrives changes neither the displayed list, the
\* last-browse snapshot, the persisted marketplace cache, the error nor the
\* loading flag.
C2_StaleBrowseResponseIgnored ==
    [][(ev'.kind = "browseResp" /\ ev'.stale)
         => UNCHANGED <<marketplaceSkills, hasMore, currentOffset,
                        lastBrowseSkills, lastBrowseHasMore, lastBrowseOffset,
                        cacheMarketplace, marketplaceError,
                        isLoadingMarketplace>>]_vars

\* a successful page-1 response has arrived after a later page-1 request
\* was dispatched
C2_Witness ==
    /\ ev.kind = "browseResp" /\ ev.stale /\ ev.outcome = "ok"
    /\ browseRequestId = 2

\* C3: while the search query is blank, marketplaceSkills and
\* lastBrowseSkills hold no id twice.
C3_NoDuplicateIds ==
    (Blank(searchQuery) /\ IsList(marketplaceSkills))
        => NoDuplicates(marketplaceSkills) /\ NoDuplicates(lastBrowseSkills)

ProviderVars ==
    <<installedSkills, marketplaceSkills, isLoadingMarketplace,
      isLoadingMore, marketplaceError, hasMore, currentOffset, searchQuery,
      isSearching, activePanel, lastBrowseSkills, lastBrowseHasMore,
      lastBrowseOffset, searchRequestId, browseRequestId, cacheMarketplace,
      cacheInstalled, browseInFlight, searchInFlight, loadMoreInFlight,
      scanInFlight>>

C6_ClearRestoresPreSearchList ==
    [][(ev'.kind = "searchClear" /\ preSearch.phase = "searching")
         => /\ marketplaceSkills' = preSearch.skills
            /\ hasMore' = preSearch.hasMore]_vars

\* C6 amended: the same, for a browse list that is not empty and is the
\* last-browse snapshot when the search is issued, and with no successful
\* current page-1 response arriving before the query is cleared.
C6_ClearRestoresLastBrowse ==
    [][(ev'.kind = "searchClear" /\ preSearch.phase = "searching"
        /\ preSearch.exact)
         => /\ marketplaceSkills' = preSearch.skills
            /\ hasMore' = preSearch.hasMore]_vars

\* a search whose response has arrived has been cleared and the browse list
\* from before the search is shown again
C6_Witness ==
    /\ ev.kind = "searchClear"
    /\ preSearch.phase = "cleared" /\ preSearch.exact
    /\ searchRequestId = 2 /\ searchInFlight = {}
    /\ marketplaceSkills = preSearch.skills
    /\ marketplaceSkills = Range(1, PAGE_SIZE)

\* C7: a page-1 fetch that fails while marketplaceSkills is not empty leaves
\* marketplaceSkills, hasMore and currentOffset as they were when the fetch
\* was dispatched, and marketplaceError null.
C7_FailedFetchKeepsData ==
    [][\A task \in browseInFlight :
         (task \notin browseInFlight' /\ ev'.kind = "browseResp"
          /\ ev'.outcome = "fail" /\ ~ev'.stale
          /\ IsList(marketplaceSkills) /\ Len(marketplaceSkills) > 0)
           => /\ marketplaceSkills' = task.before.skills
              /\ hasMore' = task.before.hasMore
              /\ currentOffset' = task.before.offset
              /\ marketplaceError' = Null]_vars

\* C8: a scan in which a skill directory cannot be read leaves
\* installedSkills and the persisted installed snapshot as they were.
C8_ScanFailureKeepsInstalled ==
    [][(ev'.kind \in {"scanDone:push", "scanDone:refresh"}
        /\ ev'.outcome = "fail")
         => UNCHANGED <<installedSkills, cacheInstalled>>]_vars

\* C9: isLoadingMarketplace is false whenever no page-1 fetch and no search
\* request is outstanding.
C9_NotLoadingWhenIdle ==
    (browseInFlight = {} /\ searchInFlight = {}) => ~isLoadingMarketplace

\* C10 as stated: a refresh whose forced fetch starts while an earlier
\* page-1 fetch is outstanding dispatches a new page-1 request with a
\* larger request id.
C10_RefreshAlwaysDispatches ==
    [][(ev'.kind = "scanDone:refresh" /\ browseInFlight # {})
         => /\ browseRequestId' > browseRequestId
            /\ \E task \in browseInFlight' :
                 task \notin browseInFlight /\ task.id = browseRequestId']_vars

\* C10 amended: such a refresh dispatches a new page-1 request with a larger
\* request id exactly if isLoadingMarketplace is false and the list is
\* defined when the forced fetch starts, and otherwise dispatches nothing;
\* a page-1 response changes the displayed list only if its request id is
\* the latest one dispatched.
C10_RefreshDispatchesUnlessLoading ==
    [][/\ (ev'.kind = "scanDone:refresh" /\ browseInFlight # {})
            => IF ~isLoadingMarketplace /\ IsList(marketplaceSkills)
               THEN /\ browseRequestId' = browseRequestId + 1
                    /\ \E task \in browseInFlight' :
                         /\ task \notin browseInFlight
                         /\ task.id = browseRequestId'
               ELSE UNCHANGED <<browseRequestId, browseInFlight>>
       /\ (ev'.kind = "browseResp" /\ marketplaceSkills' # marketplaceSkills)
            => /\ ~ev'.stale
               /\ \A task \in browseInFlight' : task.id < browseRequestId
      ]_vars

\* a refresh that followed an answered search dispatched a second page-1
\* request while the first one was outstanding, and the first response has
\* arrived and was discarded
C10_Witness ==
    /\ ev.kind = "browseResp" /\ ev.stale
    /\ browseRequestId = 2 /\ Cardinality(browseInFlight) = 1
    /\ searchRequestId = 2 /\ searchQuery = <<>>
    /\ marketplaceSkills = Range(QueryBase(<<"a">>) + 1, 3)

\* the installations of a skill name that a scan of the directories returns
InstalledAs(name, fs, lk) == {sk \in Visible(fs, lk) : sk.name = name}

\* the records of a list, as a set
Records(list) == {list[i] : i \in 1..Len(list)}

\* a delete flow whose confirmation was accepted and whose removals succeeded
DeleteRan(flow) ==
    /\ flow \in deleteFlows /\ flow \notin deleteFlows'
    /\ ev'.kind = "deleteConfirm" /\ ev'.outcome = "deleted"

\* C11: when the row of an agent's installation is deleted and only this one
\* is to be removed, exactly that installation is removed: every other
\* installation of the skill is still on disk and still returned by a scan,
\* also when the installations are symlinks to a shared .agents/skills
\* source.
C11_DeleteRemovesOnlyThatRow ==
    [][\A flow \in deleteFlows :
         (DeleteRan(flow) /\ ~flow.removeAll /\ flow.path.dir # SharedDir)
           => /\ disk' = disk \ {flow.path}
              /\ InstalledAs(flow.name, disk', links')
                   = InstalledAs(flow.name, disk, links) \ {flow.path}]_vars

\* C12: when the installer reports failure, no scan is dispatched and the
\* installed list, the installed snapshot cache and the marketplace state are
\* left as they were by every step of that install flow.
C12_FailedInstallChangesNothing ==
    [][(ev'.kind \in {"install", "installWizard"}
        \/ (ev'.kind = "installerExit" /\ ev'.outcome = "fail"))
         => UNCHANGED ProviderVars /\ scanSeq' = scanSeq]_vars

\* an installer subprocess has exited with a failure while the installed
\* list was shown and no scan was outstanding
C12_Witness ==
    /\ ev.kind = "installerExit" /\ ev.outcome = "fail"
    /\ scanInFlight = {} /\ installFlows = {}
    /\ installedSkills # <<>>

\* the marketplaceId of an installed record, null when it has none
marketplaceIdOf(sk) ==
    IF "marketplaceId" \in DOMAIN sk THEN sk.marketplaceId ELSE Null

\* C13: after an install of skill s from repository acme/tools succeeded,
\* the installed list pushed when the scan that follows is done has a record
\* named s whose marketplaceId is acme/tools/s.
C13_InstalledRecordHasMarketplaceId ==
    [][ev'.kind = "scanDone:install"
         => /\ posted' # <<>>
            /\ \E sk \in Records(posted'[Len(posted')].installedSkills) :
                 /\ sk.name = "s"
                 /\ marketplaceIdOf(sk) = "acme/tools/s"]_vars

\* C14: every successful install and every completed delete dispatches a
\* scan, and once every scan has completed, with none dispatched after that
\* one, installedSkills is the result of that scan.
C14_OperationScanSupersedes ==
    /\ [][((ev'.kind = "installerExit" /\ ev'.outcome = "success")
           \/ (ev'.kind = "deleteConfirm" /\ ev'.outcome = "deleted"))
            => /\ scanSeq' = scanSeq + 1
               /\ \E task \in scanInFlight' : task.id = scanSeq']_vars
    /\ [](/\ scanInFlight = {} /\ opScan.done /\ opScan.id = scanSeq
            => installedSkills = opScan.result)

\* C15: at most one install flow (wizard or installer subprocess) is in
\* progress at any time.
C15_OneInstallFlow ==
    Cardinality(installFlows) <= 1

\* a load-more response to a browse request that the handler applies
BrowseLoadMoreApplied(task) ==
    /\ task \in loadMoreInFlight /\ task \notin loadMoreInFlight'
    /\ ~task.requestIsSearching
    /\ ev'.kind = "loadMoreResp" /\ ~ev'.stale /\ ev'.outcome = "ok"
    /\ IsList(marketplaceSkills)

\* C16: when a browse load-more response is applied, the previous
\* marketplaceSkills is a prefix of the new one and the records of the page
\* follow it in the order of the page.
C16_LoadMoreAppendsPage ==
    [][\A task \in loadMoreInFlight :
         BrowseLoadMoreApplied(task)
           => /\ Len(marketplaceSkills')
                   = Len(marketplaceSkills) + ev'.count
              /\ SubSeq(marketplaceSkills', 1, Len(marketplaceSkills))
                   = marketplaceSkills
              /\ \E resp \in LoadMoreResponses(task) :
                   /\ resp.kind = "ok"
                   /\ SubSeq(marketplaceSkills',
                             Len(marketplaceSkills) + 1,
                             Len(marketplaceSkills')) = resp.skills]_vars

\* a list of 50 records has been merged with a page of 12 records: the first
\* 50 are the old list, the 12 of the page follow, and the length is 62
C16_Witness ==
    /\ ev.kind = "loadMoreResp" /\ ~ev.stale /\ ev.outcome = "ok"
    /\ ev.count = 12
    /\ IsList(marketplaceSkills) /\ Len(marketplaceSkills) = 62
    /\ SubSeq(marketplaceSkills, 1, PAGE_SIZE) = Range(1, PAGE_SIZE)
    /\ SubSeq(marketplaceSkills, PAGE_SIZE + 1, 62) = Range(PAGE_SIZE + 1, 12)
    /\ lastBrowseSkills = marketplaceSkills
    /\ loadMoreInFlight = {}

\* C17: after a browse load-more response is applied, the persisted
\* marketplace cache holds the merged list and the new hasMore.
C17_LoadMoreWritesCache ==
    [][\A task \in loadMoreInFlight :
         BrowseLoadMoreApplied(task)
           => /\ cacheMarketplace'.present
              /\ cacheMarketplace'.skills = marketplaceSkills'
              /\ cacheMarketplace'.hasMore = hasMore']_vars

\* whether a query is empty or made of whitespace only
WhitespaceOnly(q) == \A i \in 1..Len(q) : q[i] = " "

\* C18: a search intent whose query is empty or whitespace-only dispatches
\* no search request and sets isSearching to false; when the last-browse
\* snapshot is not empty, the restored snapshot is pushed in the handling of
\* the intent, before the fetch is marked as loading, and exactly one page-1
\* request, the current one, is dispatched.
C18_ClearRestoresThenRevalidates ==
    [][(ev'.kind \in {"search", "searchClear"} /\ WhitespaceOnly(searchQuery'))
         => /\ searchInFlight' = searchInFlight
            /\ ~isSearching'
            /\ (IsList(lastBrowseSkills) /\ Len(lastBrowseSkills) > 0)
                 => /\ Len(posted') = 1
                    /\ posted'[1].marketplaceSkills = lastBrowseSkills
                    /\ posted'[1].hasMore = lastBrowseHasMore
                    /\ ~posted'[1].isLoadingMarketplace
                    /\ posted'[1].marketplaceError = Null
                    /\ browseInFlight \subseteq browseInFlight'
                    /\ Cardinality(browseInFlight' \ browseInFlight) = 1
                    /\ \A task \in browseInFlight' \ browseInFlight :
                         /\ task.id = browseRequestId + 1
                         /\ task.id = browseRequestId'
                    /\ isLoadingMarketplace']_vars

\* a search was in flight over a browse list of 12 records when the query
\* was cleared: the 12 records were pushed and one page-1 request is out
C18_Witness ==
    /\ ev.kind = "searchClear" /\ WhitespaceOnly(searchQuery)
    /\ searchInFlight # {} /\ ~isSearching
    /\ Len(posted) = 1
    /\ posted[1].marketplaceSkills = Range(1, 12)
    /\ ~posted[1].isLoadingMarketplace
    /\ isLoadingMarketplace
    /\ \E task \in browseInFlight : task.id = browseRequestId

\* C19: for a rendered installed row with marketplaceId X and exactly one
\* marketplace record with id X, the match is that record; for a row with no
\* marketplaceId, a match is produced only if exactly one marketplace record
\* has its name, and is that record.
C19_ReinstallCrossReference ==
    xref.by # "none"
      => LET s == xref.installed
             withId == SelectSeq(xref.marketplace,
                                 LAMBDA m : m.id = s.marketplaceId)
             withName == SelectSeq(xref.marketplace,
                                   LAMBDA m : m.name = s.name)
         IN /\ (s.marketplaceId # Null /\ Len(withId) = 1)
                 => xref.match = <<withId[1]>>
            /\ (s.marketplaceId = Null /\ xref.match # <<>>)
                 => (Len(withName) = 1 /\ xref.match = <<withName[1]>>)

\* C21: for a name with several installed records nothing is removed before
\* the one-or-all question and the confirmation are answered; a dismissed
\* dialog removes nothing and dispatches no scan; 'No' removes only the
\* path of the selected row, 'Yes' the paths of all records of the name,
\* and a rescan is dispatched after the removals.
C21_DeleteAsksThenDeletes ==
    [][/\ disk' # disk
          => /\ ev'.kind = "deleteConfirm" /\ ev'.outcome = "deleted"
             /\ \E flow \in deleteFlows \ deleteFlows' :
                  /\ flow.pc = "confirm"
                  /\ Len(flow.matching) > 1 => flow.answered = 1
       /\ (ev'.kind \in {"deleteChoice", "deleteConfirm"}
           /\ ev'.outcome = "cancelled")
          => /\ disk' = disk /\ links' = links
             /\ scanSeq' = scanSeq /\ scanInFlight' = scanInFlight
       /\ \A flow \in deleteFlows :
            (DeleteRan(flow) /\ Len(flow.matching) > 1)
              => /\ disk \ disk' = disk \cap (IF flow.removeAll
                                                THEN Records(flow.matching)
                                                ELSE {flow.path})
                 /\ scanSeq' = scanSeq + 1
                 /\ \E task \in scanInFlight' :
                      /\ task.id = scanSeq' /\ task.cont = "delete"
                      /\ ~task.read]_vars

\* C22: when a deleted row is a symlink, its resolved target is removed as
\* well only if it lies inside a directory .agents/skills; the resolved
\* target of a symlink that points anywhere else is never removed.
C22_TargetRemovedOnlyInAgentsSkills ==
    (rowDelete.done /\ rowDelete.target \in rowDelete.removed)
      => \E i \in 1..(Len(rowDelete.target) - 2) :
            /\ rowDelete.target[i] = ".agents"
            /\ rowDelete.target[i + 1] = "skills"

\* the snapshot posted last by the segment that just ran
LastPosted(list) == list[Len(list)]

\* activation loads the persisted snapshots before it dispatches the scan
\* and the page-1 request
ActivationLoadsCache ==
    ev'.kind = "activate"
      => /\ cacheInstalled.present
              => installedSkills' = cacheInstalled.data
         /\ cacheMarketplace.present
              => /\ marketplaceSkills' = cacheMarketplace.skills
                 /\ \A task \in browseInFlight' :
                      task.before.skills = cacheMarketplace.skills
         /\ \E task \in scanInFlight' : task.cont = "push" /\ ~task.read

\* the segment that just ran has posted a snapshot with the installed list
\* and the marketplace list of the new state
PostedNewState ==
    /\ posted' # <<>>
    /\ LastPosted(posted').installedSkills = installedSkills'
    /\ LastPosted(posted').marketplaceSkills = marketplaceSkills'
    /\ LastPosted(posted').isLoadingMarketplace = isLoadingMarketplace'

CacheYoung == cacheMarketplace.present /\ now - cacheMarketplace.timestamp < 300000

\* the segment that just ran has dispatched one page-1 request
PageOneDispatched ==
    /\ browseRequestId' = browseRequestId + 1
    /\ \E task \in browseInFlight' :
         task.id = browseRequestId' /\ task \notin browseInFlight

\* activation dispatches a page-1 request unless the cache is young and the
\* list loaded from it is not empty
ActivationFetchesUnlessFresh ==
    ev'.kind = "activate"
      => IF CacheYoung /\ Len(cacheMarketplace.skills) > 0
         THEN UNCHANGED <<browseInFlight, browseRequestId>>
         ELSE PageOneDispatched

C25_SetActivePanelOnlyPanel ==
    /\ [][ev'.kind = "setActivePanel"
            => /\ UNCHANGED <<installedSkills, marketplaceSkills, hasMore,
                             currentOffset, isLoadingMarketplace,
                             isLoadingMore, marketplaceError, searchQuery,
                             isSearching, searchRequestId, browseRequestId,
                             lastBrowseSkills, lastBrowseHasMore,
                             lastBrowseOffset, cacheMarketplace,
                             cacheInstalled>>
               /\ UNCHANGED <<scanInFlight, scanSeq, browseInFlight,
                             searchInFlight, loadMoreInFlight>>
               /\ posted' = <<>>]_vars
    /\ [](activePanel \in {"installed", "marketplace"})

\* the Installed tab was clicked while a search was in flight
C25_Witness ==
    /\ ev.kind = "setActivePanel"
    /\ activePanel = "installed"
    /\ isSearching /\ searchInFlight # {}
    /\ isLoadingMarketplace /\ searchRequestId = 1

\* the endpoint that a record came from: the browse feed, or the search for
\* a query
FromBrowse(id) == id <= QueryBase(<<"a">>)

FromSearch(q, id) == id > QueryBase(q) /\ id <= QueryBase(q) + QueryBase(<<"a">>)

\* the records of a list all came from the browse feed, or all from the
\* search for one query
SingleProvenance(list) ==
    \/ \A i \in 1..Len(list) : FromBrowse(list[i])
    \/ \E q \in Queries : \A i \in 1..Len(list) : FromSearch(Trim(q), list[i])

\* C26: whenever no request is outstanding the marketplace list has a single
\* provenance: records of a browse response and of a search response, or of
\* the searches for two queries, are never in the list together.
C26_SingleProvenance ==
    (/\ browseInFlight = {} /\ searchInFlight = {} /\ loadMoreInFlight = {}
     /\ IsList(marketplaceSkills))
      => SingleProvenance(marketplaceSkills)

\* C27: a load-more request dispatched in browse mode asks for the offset
\* that equals the number of records in marketplaceSkills, also after a
\* failed forced refresh and while a forced refresh is outstanding.
C27_LoadMoreOffsetIsListLength ==
    [][\A task \in loadMoreInFlight' \ loadMoreInFlight :
         (ev'.kind = "loadMore" /\ ~task.requestIsSearching
          /\ IsList(marketplaceSkills))
           => task.offset = Len(marketplaceSkills)]_vars

\* C28: a load-more response that arrives in a search context other than the
\* one of its dispatch leaves marketplaceSkills, hasMore, currentOffset and
\* the last-browse snapshot unchanged.
C28_LoadMoreAppliedInSameContext ==
    [][\A task \in loadMoreInFlight \ loadMoreInFlight' :
         (/\ ev'.kind = "loadMoreResp"
          /\ ~(/\ isSearching = task.requestIsSearching
               /\ Trim(searchQuery) = task.requestQuery
               /\ task.requestIsSearching
                    => searchRequestId = task.requestSearchId))
           => UNCHANGED <<marketplaceSkills, hasMore, currentOffset,
                          lastBrowseSkills, lastBrowseHasMore,
                          lastBrowseOffset>>]_vars

\* a load-more of the browse list was answered with 12 records after a
\* search had started: the 50 records of the browse list are unchanged
C28_Witness ==
    /\ ev.kind = "loadMoreResp" /\ ev.outcome = "ok" /\ ev.count = 12
    /\ isSearching /\ searchInFlight # {}
    /\ loadMoreInFlight = {} /\ ~isLoadingMore
    /\ marketplaceSkills = Range(1, PAGE_SIZE)
    /\ lastBrowseSkills = Range(1, PAGE_SIZE)
    /\ currentOffset = PAGE_SIZE

\* C29: a search, page-1 or load-more response without a skills array
\* leaves marketplaceSkills a well-formed sequence with its previous
\* content.
C29_MalformedResponseKeepsList ==
    [][(/\ ev'.kind \in {"searchResp", "browseResp", "loadMoreResp"}
        /\ ev'.outcome = "malformed")
         => IsList(marketplaceSkills')
            /\ marketplaceSkills' = marketplaceSkills]_vars

\* _loadMoreSkills has run to its end: the flag is down and the snapshot it
\* posted says so
LoadMoreFinished ==
    /\ ev.kind = "loadMoreResp"
    /\ loadMoreInFlight = {}
    /\ ~isLoadingMore
    /\ posted # <<>>
    /\ ~LastPosted(posted).isLoadingMore
    /\ LastPosted(posted).marketplaceSkills = marketplaceSkills

\* C30: at most one load-more request is outstanding, and a load-more that
\* was dispatched is followed by isLoadingMore = false and a posted
\* snapshot, whatever its response.
C30_OneLoadMoreAndItFinishes ==
    /\ [](Cardinality(loadMoreInFlight) <= 1)
    /\ [](loadMoreInFlight # {} => isLoadingMore)
    /\ (loadMoreInFlight # {}) ~> LoadMoreFinished

\* a load-more failed after a search had started: it is stale and a failure,
\* the flag is down and the snapshot was posted
C30_Witness ==
    /\ LoadMoreFinished
    /\ ev.outcome = "fail" /\ ev.stale
    /\ marketplaceError = ErrLoadMoreFailed
    /\ LastPosted(posted).marketplaceError = ErrLoadMoreFailed
    /\ isSearching

\* C20: when a skill installed under 3 level/agent combinations is deleted
\* with "Remove all", exactly 3 filesystem targets are removed, no
\* installation of that name is left for the rescan, and the rescan is
\* dispatched.
C20_RemoveAllRemovesThree ==
    [][\A flow \in deleteFlows :
         (/\ DeleteRan(flow) /\ flow.removeAll
          /\ Len(flow.matching) = 3
          /\ Records(flow.matching) = InstalledAs(flow.name, disk, links))
           => /\ ev'.count = 3
              /\ disk' = disk \ Records(flow.matching)
              /\ InstalledAs(flow.name, disk', links') = {}
              /\ \E task \in scanInFlight' :
                   task.id = scanSeq + 1 /\ task.cont = "delete"]_vars

\* "Remove all" was confirmed for a skill shown in three rows: three
\* removals were made, nothing is left on disk and the rescan is outstanding
C20_Witness ==
    /\ ev.kind = "deleteConfirm" /\ ev.outcome = "deleted"
    /\ ev.more /\ ev.count = 3
    /\ Len(installedSkills) = 3
    /\ disk = {} /\ deleteFlows = {}
    /\ \E task \in scanInFlight : task.cont = "delete" /\ task.id = scanSeq

\* C31: between handler steps isSearching is true exactly when the trimmed
\* searchQuery is not empty.
C31_SearchingIffQuery ==
    isSearching <=> Trim(searchQuery) # <<>>

\* a whitespace-only query was typed while the search for another query was
\* outstanding: the query is kept as typed and isSearching is false
C31_Witness ==
    /\ ev.kind = "searchClear"
    /\ searchQuery # <<>> /\ WhitespaceOnly(searchQuery)
    /\ ~isSearching
    /\ searchInFlight # {}

\* C32: a step of a search for a non-blank query and a load-more applied in
\* search mode leave the last-browse snapshot and the persisted marketplace
\* cache as they are, and the persisted cache always holds the skills of a
\* page-1 browse response.
C32_SearchLeavesBrowseSnapshot ==
    /\ [][(\/ ev'.kind \in {"search", "searchResp"}
           \/ /\ ev'.kind = "loadMoreResp" /\ ~ev'.stale
              /\ ev'.outcome = "ok" /\ isSearching)
            => UNCHANGED <<lastBrowseSkills, lastBrowseHasMore,
                           lastBrowseOffset, cacheMarketplace>>]_vars
    /\ [](cacheMarketplace.present
            => \E resp \in BrowseResponses(0) :
                 resp.kind = "ok" /\ cacheMarketplace.skills = resp.skills)

\* a second page of search results was appended to the first while the
\* snapshot and the cache still hold the 50 records of the browse feed
C32_Witness ==
    /\ ev.kind = "loadMoreResp" /\ ~ev.stale /\ ev.outcome = "ok"
    /\ isSearching
    /\ Len(marketplaceSkills) > PAGE_SIZE
    /\ \A i \in 1..Len(marketplaceSkills) :
         FromSearch(Trim(searchQuery), marketplaceSkills[i])
    /\ lastBrowseSkills = Range(1, PAGE_SIZE)
    /\ cacheMarketplace.present
    /\ cacheMarketplace.skills = Range(1, PAGE_SIZE)

C34_CopyInstallKeepsInstalled ==
    [][\A flow \in installFlows :
         (/\ flow \notin installFlows' /\ flow.method = "copy"
          /\ ev'.kind = "installerExit" /\ ev'.outcome = "success")
           => Records(scanAllSkills(Visible(disk, links), Dirs))
                \subseteq Records(scanAllSkills(Visible(disk', links'),
                                                Dirs))]_vars

\* the calls of installWithOptionsMultiple under way for an install intent
InstallerCalls(flows, id) == {f \in flows : f.id = id /\ f.pc = "installer"}

\* C35: a wizard cancelled at any prompt calls the installer zero times and
\* dispatches no scan; a completed wizard calls the installer once for its
\* intent, with all the selected agents in that call, and the call is not
\* repeated when it returns.
C35_WizardCallsInstallerOnce ==
    /\ [][\A flow \in IF ev'.kind = "installWizard"
                      THEN installFlows \ installFlows' ELSE {} :
          \A answers \in WizardAnswers :
            (/\ flow.pc = "wizard"
             /\ installFlows' \ installFlows = wizardResult(flow, answers))
              => IF \/ ~answers.agents.accepted
                    \/ answers.agents.items = {}
                    \/ Dismissed \in {answers.level, answers.method,
                                      answers.telemetry}
                 THEN /\ InstallerCalls(installFlows', flow.id) = {}
                      /\ UNCHANGED <<scanInFlight, scanSeq, disk, links>>
                 ELSE /\ Cardinality(InstallerCalls(installFlows', flow.id)) = 1
                      /\ \A f \in InstallerCalls(installFlows', flow.id) :
                           f.modes = answers.agents.items
                      /\ InstallerCalls(installFlows, flow.id) = {}]_vars
    /\ [][ev'.kind = "installerExit"
            => /\ installFlows' \subseteq installFlows
               /\ installFlows' # installFlows]_vars
    /\ [][\A f \in installFlows', g \in installFlows' :
            f.id = g.id => f = g]_vars

\* the wizard was completed with every agent selected: one call of the
\* installer is under way, for all of them; nothing was scanned since
C35_Witness ==
    /\ ev.kind = "installWizard" /\ ev.outcome = "started"
    /\ Cardinality(AgentDirs) > 1
    /\ \E f \in installFlows :
         /\ f.pc = "installer" /\ f.modes = AgentDirs
         /\ InstallerCalls(installFlows, f.id) = {f}

\* C36: a successful page-1 response with zero skills is never written to
\* the persisted marketplace cache, whether or not a search is active when
\* it arrives.
C36_EmptyPageNeverCached ==
    [][(ev'.kind = "browseResp" /\ ev'.outcome = "ok" /\ ev'.count = 0)
         => cacheMarketplace' = cacheMarketplace]_vars

\* C37: for a burst of keystrokes in the marketplace panel, each less than
\* 150 ms after the one before, one search message is posted, 150 ms after
\* the last keystroke and with the text of the search box after that
\* keystroke; none is posted for the texts in between.
C37_OneSearchPerBurst ==
    /\ [][Len(view'.sent) = Len(view.sent) + 1
            => /\ view'.sent[Len(view'.sent)].at = view.lastKey + DEBOUNCE_MS
               /\ view'.sent[Len(view'.sent)].query = view.typed]_vars
    /\ [](Len(view.sent) + (IF view.searchTimeout # <<>> THEN 1 ELSE 0)
            = view.bursts)

====
